---------------------------- MODULE Spec2Model ----------------------------
(***************************************************************************)
(* Technical-adjustment listing: the non-paged handler, the repository's   *)
(* paged query, the two paged handlers, the response schema's rename and   *)
(* the SQLAlchemy error handler (src/get.py, src/schema.py,                *)
(* src/exception_handler.py).                                              *)
(*                                                                         *)
(* The store is a sequence of rows in the order the database returns them  *)
(* (the queries carry no ORDER BY); no operation of the program writes it. *)
(* A request is one step: the handler runs to its response.                *)
(***************************************************************************)
EXTENDS Integers, Sequences, FiniteSets

\* ------------------------------------------------------------------ bounds
MaxRows == 3
MaxPage == 4
MaxPageSize == 3

\* Filter identifiers a caller may send and a row may carry.
Ids == {1, 2}
\* page is an unconstrained int at the repository (the endpoints add ge=1).
Pages == -1..MaxPage
\* page_size is bounded above only (le=200): zero and negatives get through.
PageSizes == -2..MaxPageSize
\* datetime.now(timezone.utc) read by the error handler.
Timestamps == {1, 2}

\* -------------------------------------------------------------- the rows
\* A nullable list column: NULL, or a list of strings.
Null == [isNull |-> TRUE, items |-> <<>>]
List(s) == [isNull |-> FALSE, items |-> s]

\* The three list columns of a row, by kind of row.
ListColumns(kind) ==
    CASE kind = 1 -> [asset_types |-> List(<<"onshore_property">>),
                      perils |-> List(<<"Fire">>),
                      insured_value_types |-> List(<<>>)]
      [] kind = 2 -> [asset_types |-> Null,
                      perils |-> Null,
                      insured_value_types |-> Null]
      [] OTHER    -> [asset_types |-> List(<<>>),
                      perils |-> Null,
                      insured_value_types |-> List(<<"TIV">>)]

\* The two filter columns of a row, by kind: kinds 1 and 2 carry (1, 1),
\* kind 3 carries (1, 2).
KindIis(kind) == 1
KindPto(kind) == IF kind = 3 THEN 2 ELSE 1
RowKinds == 1..3

\* A TechnicalAdjustment row with its joined model field, field and
\* model configuration (the joinedload options).
MkRow(i, kind) ==
    [id |-> i,
     insurable_interest_set_id |-> KindIis(kind),
     policy_term_option_id |-> KindPto(kind),
     quote_option_id |-> 7,
     asset_types |-> ListColumns(kind).asset_types,
     applies_to |-> Null,
     perils |-> ListColumns(kind).perils,
     insured_value_types |-> ListColumns(kind).insured_value_types,
     adjustment_value |-> 2,
     adjustment_reason |-> "Fire to tech added",
     reason_category |-> "Policy Coverage",
     adjustment_model_field |->
        [technical_adjustment_field |->
            [adjustment_type_identifier_code |-> "ModelToTechnical"],
         technical_adjustment_model_configuration |->
            [model_name |-> "v0022025001"]]]

Stores ==
    UNION {{[i \in 1..n |-> MkRow(i, k[i])] : k \in [1..n -> RowKinds]} :
           n \in 0..MaxRows}

\* --------------------------------------------------------- the data store
\* The two filter conditions (get.py 41-44, 97-100, 124-127).
MatchesByIisOnly(r, iis, pto) == r.insurable_interest_set_id = iis
Matches(r, iis, pto) ==
    /\ r.insurable_interest_set_id = iis
    /\ r.policy_term_option_id = pto

RECURSIVE Where(_, _, _)
Where(rows, iis, pto) ==
    IF rows = <<>> THEN <<>>
    ELSE (IF Matches(Head(rows), iis, pto) THEN <<Head(rows)>> ELSE <<>>)
         \o Where(Tail(rows), iis, pto)

\* select(func.count()).select_from(model).where(*filters)
CountRowsUnfiltered(rows, iis, pto) == Len(rows)
CountRows(rows, iis, pto) == Len(Where(rows, iis, pto))

Min(a, b) == IF a < b THEN a ELSE b

\* LIMIT / OFFSET as the database applies them to the filtered rows. A
\* negative LIMIT or OFFSET is passed to the database unchanged; a lenient
\* database reads a negative LIMIT as no limit and a negative OFFSET as 0
\* (a strict one rejects the statement, see FetchRejected).
LimitOffset(rows, limit, offset) ==
    LET off  == IF offset < 0 THEN 0 ELSE offset
        last == IF limit < 0 THEN Len(rows) ELSE Min(Len(rows), off + limit)
    IN  IF off + 1 > last THEN <<>> ELSE SubSeq(rows, off + 1, last)

FetchRejected(dialect, limit, offset) ==
    dialect = "strict" /\ (limit < 0 \/ offset < 0)

Dialects == {"strict", "lenient"}
RejectText == "LIMIT must not be negative"
SpontaneousTexts == {"server closed the connection unexpectedly",
                     "deadlock detected"}
ExcTexts == SpontaneousTexts \cup {RejectText}

\* What the environment does to one request: the database's dialect, and
\* whether a statement fails on its own ("none", at the "count", at the
\* "fetch"), with the exception's text.
Envs ==
    {[dialect |-> d, fail |-> "none", text |-> RejectText] : d \in Dialects}
    \cup [dialect : Dialects, fail : {"count", "fetch"}, text : SpontaneousTexts]
OkEnv == [dialect |-> "lenient", fail |-> "none", text |-> RejectText]


\* ------------------------------------------------- the repository (get.py)
\* page = max(page, 1)
ClampPageNone(page) == page
ClampPage(page) == IF page > 1 THEN page ELSE 1

\* offset = (page - 1) * page_size
OffsetFromPage(page, page_size) == page * page_size
Offset(page, page_size) == (page - 1) * page_size

\* math.ceil(n / d) of Python's true division, d # 0, by floor division
\* with a positive divisor.
CeilDiv(n, d) == IF d > 0 THEN -((-n) \div d) ELSE -(n \div (-d))

\* total_items / page_size raises ZeroDivisionError when page_size = 0.
TrueDivCeil(n, d) ==
    [raised |-> d = 0, value |-> IF d = 0 THEN 0 ELSE CeilDiv(n, d)]

\* math.ceil(total_items / page_size) if page_size else 1
TotalPagesFloor(total_items, page_size) ==
    IF page_size # 0
    THEN [raised |-> FALSE,
          value |-> IF page_size > 0 THEN total_items \div page_size
                    ELSE (-total_items) \div (-page_size)]
    ELSE [raised |-> FALSE, value |-> 1]
TotalPages(total_items, page_size) ==
    IF page_size # 0 THEN TrueDivCeil(total_items, page_size)
    ELSE [raised |-> FALSE, value |-> 1]

NoValue == [meta |-> <<>>, records |-> <<>>]

\* TechnicalAdjustmentRepository.list_with_related_fields_paged: the result
\* is what it raised ("none" when it returned), the fetch statement it sent
\* to the session, and the PaginatedResponse it returned.
ListWithRelatedFieldsPaged(rows, env, iis, pto, page_in, page_size) ==
    LET page        == ClampPage(page_in)
        offset      == Offset(page, page_size)
        total_items == CountRows(rows, iis, pto)
        stmt        == [limit |-> page_size, offset |-> offset]
        records     == LimitOffset(Where(rows, iis, pto), page_size, offset)
        total_pages == TotalPages(total_items, page_size)
    IN  IF env.fail = "count"
        THEN [raised |-> "SQLAlchemyError", text |-> env.text,
              issued |-> <<>>, value |-> NoValue]
        ELSE IF FetchRejected(env.dialect, page_size, offset)
        THEN [raised |-> "SQLAlchemyError", text |-> RejectText,
              issued |-> <<stmt>>, value |-> NoValue]
        ELSE IF env.fail = "fetch"
        THEN [raised |-> "SQLAlchemyError", text |-> env.text,
              issued |-> <<stmt>>, value |-> NoValue]
        ELSE IF total_pages.raised
        THEN [raised |-> "ZeroDivisionError", text |-> "division by zero",
              issued |-> <<stmt>>, value |-> NoValue]
        ELSE [raised |-> "none", text |-> "",
              issued |-> <<stmt>>,
              value |-> [meta |-> [total_items |-> total_items,
                                   total_pages |-> total_pages.value,
                                   page_number |-> page,
                                   page_size |-> page_size],
                         records |-> records]]

\* ------------------------------------------------------ the row projection
\* Python's `x or []` on a nullable list column.
OrEmptyKeep(v) == v
OrEmpty(v) == IF v.isNull \/ v.items = <<>> THEN List(<<>>) ELSE v

\* The dict built per row by the projecting handlers (get.py 56-70, 208-222).
Project(adj) ==
    [technicalAdjustmentId |-> adj.id,
     model_name |->
        adj.adjustment_model_field.technical_adjustment_model_configuration.model_name,
     insurableInterestSetId |-> adj.insurable_interest_set_id,
     policyTermOptionId |-> adj.policy_term_option_id,
     quoteOptionId |-> adj.quote_option_id,
     assetTypes |-> OrEmpty(adj.asset_types),
     appliesTo |-> adj.applies_to,
     perils |-> OrEmpty(adj.perils),
     insuredValueTypes |-> OrEmpty(adj.insured_value_types),
     adjustmentTypeIdentifierCode |->
        adj.adjustment_model_field.technical_adjustment_field.adjustment_type_identifier_code,
     adjustmentValue |-> adj.adjustment_value,
     adjustmentReason |-> adj.adjustment_reason,
     reasonCategory |-> adj.reason_category]

ProjectAll(rows) == [i \in 1..Len(rows) |-> Project(rows[i])]

\* --------------------------------------- the error handler and the routes
\* router prefix + route path (get.py 13, 16, 172, 188).
NonPagedPath == "/technical-adjustments"
PagedPath == "/technical-adjustments/technical-adjustments"

FixedDetail ==
    "An unexpected database error occurred. Please contact support if the issue persists."

\* sqlalchemy_error_handler: the body of the JSON response.
ErrorBodyLeaking(path, text, now) ==
    [timestamp |-> now, status |-> 500, title |-> "Database Error",
     errors |-> <<[detail |-> text]>>, path |-> path]
ErrorBody(path, text, now) ==
    [timestamp |-> now, status |-> 500, title |-> "Database Error",
     errors |-> <<[detail |-> FixedDetail]>>, path |-> path]

\* sqlalchemy_error_handler: the record given to logger.error.
ErrorLog(path, text) ==
    [level |-> "error", msg |-> "Unhandled SQLAlchemy error",
     exc_info |-> text, path |-> path]

\* What the application answers when a handler raised: a SQLAlchemyError
\* goes to sqlalchemy_error_handler; any other exception has no handler
\* here and becomes the framework's plain 500.
Raised(kind, text, path, now) ==
    IF kind = "SQLAlchemyError"
    THEN [response |-> [status |-> 500, body |-> ErrorBody(path, text, now)],
          logged |-> <<ErrorLog(path, text)>>]
    ELSE [response |-> [status |-> 500,
                        body |-> [detail |-> "Internal Server Error"]],
          logged |-> <<>>]

Returned(body) == [response |-> [status |-> 200, body |-> body], logged |-> <<>>]

NotFoundDetail == "No technical adjustments found for given parameters"


\* --------------------------------------------------- the schema (schema.py)
\* TechnicalAdjustmentListResponse: the envelope's fields meta and records,
\* and the field the subclass declares, which has no default.
ListResponseFields == {"meta", "records", "technical_adjustments"}

\* TechnicalAdjustmentListResponse.model_dump: data.pop("records", []) is
\* stored under "technicalAdjustments"; every other field stays.
ModelDump(data) ==
    [k \in (DOMAIN data \ {"records"}) \cup {"technicalAdjustments"} |->
        IF k = "technicalAdjustments"
        THEN (IF "records" \in DOMAIN data THEN data["records"] ELSE <<>>)
        ELSE data[k]]

\* schema.py list_technical_adjustments: the keyword arguments it builds the
\* response from.
SchemaKwargs ==
    [meta |-> [page_number |-> 1, page_size |-> 1000,
               total_items |-> 1153, total_pages |-> 2],
     records |-> <<>>]

\* ------------------------------------------------------------ the handlers
QueryPageGe == 1
QueryPageSizeLe == 200

\* page: int = Query(1, ge=1), page_size: int = Query(50, le=200)
ValidQuery(page, page_size) == page >= QueryPageGe /\ page_size <= QueryPageSizeLe

NoCall == [raised |-> "none", text |-> "", issued |-> <<>>, value |-> NoValue]

Unprocessable ==
    [returned |-> NoCall,
     response |-> [status |-> 422, body |-> [detail |-> "validation error"]],
     logged |-> <<>>]

\* get_technical_adjustments (get.py 21-72): one query, no LIMIT.
GetTechnicalAdjustmentsResult(rows, env, now, iis, pto) ==
    LET adjustments == Where(rows, iis, pto)
        query == IF env.fail # "none"
                 THEN [raised |-> "SQLAlchemyError", text |-> env.text,
                       issued |-> <<>>, value |-> NoValue]
                 ELSE [raised |-> "none", text |-> "", issued |-> <<>>,
                       value |-> [meta |-> <<>>, records |-> adjustments]]
        out   == IF query.raised # "none"
                 THEN Raised(query.raised, query.text, NonPagedPath, now)
                 ELSE IF adjustments = <<>>
                 THEN [response |-> [status |-> 404,
                                     body |-> [detail |-> NotFoundDetail]],
                       logged |-> <<>>]
                 ELSE Returned([technical_adjustments |->
                                    ProjectAll(adjustments)])
    IN  [returned |-> query, response |-> out.response, logged |-> out.logged]

\* list_technical_adjustments (get.py 172-185): returns the repository's
\* envelope as it is.
ListRawResult(rows, env, now, iis, pto, page, page_size) ==
    LET paged == ListWithRelatedFieldsPaged(rows, env, iis, pto, page, page_size)
        out   == IF paged.raised # "none"
                 THEN Raised(paged.raised, paged.text, PagedPath, now)
                 ELSE Returned(paged.value)
    IN  IF ~ValidQuery(page, page_size) THEN Unprocessable
        ELSE [returned |-> paged, response |-> out.response,
              logged |-> out.logged]

\* list_technical_adjustments (get.py 191-227): projects the records.
ListProjectedResult(rows, env, now, iis, pto, page, page_size) ==
    LET paged == ListWithRelatedFieldsPaged(rows, env, iis, pto, page, page_size)
        out   == IF paged.raised # "none"
                 THEN Raised(paged.raised, paged.text, PagedPath, now)
                 ELSE Returned([meta |-> paged.value.meta,
                                records |-> ProjectAll(paged.value.records)])
    IN  IF ~ValidQuery(page, page_size) THEN Unprocessable
        ELSE [returned |-> paged, response |-> out.response,
              logged |-> out.logged]

\* list_technical_adjustments (schema.py 60-71): the construction lacks the
\* required field technical_adjustments, which pydantic refuses.
SchemaListResult ==
    IF ListResponseFields \subseteq DOMAIN SchemaKwargs
    THEN Returned(ModelDump(SchemaKwargs))
    ELSE Raised("ValidationError", "technical_adjustments: Field required",
                NonPagedPath, 1)

\* --------------------------------------------------------------- the state
VARIABLES
    store,      \* the rows of the table, in the order the database returns them
    request,    \* the operation called last, with its arguments
    returned,   \* what that call's query or repository method returned or raised
    response,   \* the HTTP response of that call (status 0: none)
    logged,     \* the records that call gave to logger.error
    sweep       \* a client reading the pages 1..total_pages in turn

vars == <<store, request, returned, response, logged, sweep>>

NoResponse == [status |-> 0, body |-> <<>>]
NoSweep == [active |-> FALSE, done |-> FALSE, iis |-> 0, pto |-> 0,
            page_size |-> 0, next |-> 0, total_pages |-> 0,
            total_items |-> 0, ids |-> <<>>, longest |-> 0]

Init ==
    /\ store \in Stores
    /\ request = [op |-> "none"]
    /\ returned = NoCall
    /\ response = NoResponse
    /\ logged = <<>>
    /\ sweep = NoSweep

GetTechnicalAdjustments ==
    /\ request.op = "none"
    /\ \E iis \in Ids, pto \in Ids, now \in Timestamps,
       env \in {e \in Envs : e.fail # "count"} :
        LET r == GetTechnicalAdjustmentsResult(store, env, now, iis, pto)
        IN  /\ request' = [op |-> "get_technical_adjustments",
                           iis |-> iis, pto |-> pto]
            /\ returned' = r.returned
            /\ response' = r.response
            /\ logged' = r.logged
            /\ UNCHANGED <<store, sweep>>

ListRaw ==
    /\ request.op = "none"
    /\ \E iis \in Ids, pto \in Ids, page \in Pages, page_size \in PageSizes,
       now \in Timestamps, env \in Envs :
        LET r == ListRawResult(store, env, now, iis, pto, page, page_size)
        IN  /\ request' = [op |-> "list_technical_adjustments_raw",
                           iis |-> iis, pto |-> pto,
                           page |-> page, page_size |-> page_size]
            /\ returned' = r.returned
            /\ response' = r.response
            /\ logged' = r.logged
            /\ UNCHANGED <<store, sweep>>

ListProjected ==
    /\ request.op = "none"
    /\ \E iis \in Ids, pto \in Ids, page \in Pages, page_size \in PageSizes,
       now \in Timestamps, env \in Envs :
        LET r == ListProjectedResult(store, env, now, iis, pto, page, page_size)
        IN  /\ request' = [op |-> "list_technical_adjustments",
                           iis |-> iis, pto |-> pto,
                           page |-> page, page_size |-> page_size]
            /\ returned' = r.returned
            /\ response' = r.response
            /\ logged' = r.logged
            /\ UNCHANGED <<store, sweep>>

\* A direct call of the repository's method: page is any int.
RepoListPaged ==
    /\ request.op = "none"
    /\ \E iis \in Ids, pto \in Ids, page \in Pages, page_size \in PageSizes,
       env \in Envs :
        /\ request' = [op |-> "list_with_related_fields_paged",
                       iis |-> iis, pto |-> pto,
                       page |-> page, page_size |-> page_size]
        /\ returned' = ListWithRelatedFieldsPaged(store, env, iis, pto,
                                                  page, page_size)
        /\ response' = NoResponse
        /\ logged' = <<>>
        /\ UNCHANGED <<store, sweep>>

SchemaList ==
    /\ request.op = "none"
    /\ request' = [op |-> "schema_list_technical_adjustments"]
    /\ returned' = NoCall
    /\ response' = SchemaListResult.response
    /\ logged' = SchemaListResult.logged
    /\ UNCHANGED <<store, sweep>>

\* The end of a request: the request-scoped session and what hung on it are
\* released, and the next request is served.
EndRequest ==
    /\ request.op # "none"
    /\ ~sweep.active
    /\ request' = [op |-> "none"]
    /\ returned' = NoCall
    /\ response' = NoResponse
    /\ logged' = <<>>
    /\ UNCHANGED <<store, sweep>>

Next ==
    \/ EndRequest
    \/ GetTechnicalAdjustments
    \/ ListRaw
    \/ ListProjected
    \/ RepoListPaged
    \/ SchemaList

Spec == Init /\ [][Next]_vars

\* ------------------------------------------- a client reading page by page
Ids_(records) == [i \in 1..Len(records) |-> records[i].id]

\* The first call asks for page 1 and learns total_pages from its meta.
SweepStart ==
    /\ ~sweep.active
    /\ request.op = "none"
    /\ \E iis \in Ids, pto \in Ids, page_size \in 1..MaxPageSize,
          env \in {e \in Envs : e.fail = "none"} :
        LET r == ListWithRelatedFieldsPaged(store, env, iis, pto, 1, page_size)
        IN  /\ request' = [op |-> "list_with_related_fields_paged",
                           iis |-> iis, pto |-> pto,
                           page |-> 1, page_size |-> page_size]
            /\ returned' = r
            /\ sweep' = [active |-> TRUE,
                         done |-> r.value.meta.total_pages < 2,
                         iis |-> iis, pto |-> pto, page_size |-> page_size,
                         next |-> 2,
                         total_pages |-> r.value.meta.total_pages,
                         total_items |-> r.value.meta.total_items,
                         ids |-> Ids_(r.value.records),
                         longest |-> Len(r.value.records)]
    /\ response' = NoResponse
    /\ logged' = <<>>
    /\ UNCHANGED store

\* Each later call asks for the next page, up to total_pages.
SweepStep ==
    /\ sweep.active
    /\ ~sweep.done
    /\ \E env \in {e \in Envs : e.fail = "none"} :
        LET r == ListWithRelatedFieldsPaged(store, env, sweep.iis, sweep.pto,
                                            sweep.next, sweep.page_size)
        IN  /\ request' = [op |-> "list_with_related_fields_paged",
                           iis |-> sweep.iis, pto |-> sweep.pto,
                           page |-> sweep.next,
                           page_size |-> sweep.page_size]
            /\ returned' = r
            /\ sweep' = [sweep EXCEPT
                            !.done = sweep.next + 1 > sweep.total_pages,
                            !.next = sweep.next + 1,
                            !.ids = sweep.ids \o Ids_(r.value.records),
                            !.longest =
                                IF Len(r.value.records) > sweep.longest
                                THEN Len(r.value.records) ELSE sweep.longest]
    /\ response' = NoResponse
    /\ logged' = <<>>
    /\ UNCHANGED store

NextSweep ==
    \/ SweepStart
    \/ SweepStep

SpecSweep == Init /\ [][NextSweep]_vars


\* ------------------------------------------------------------- the claims
PagedHandlerOps == {"list_technical_adjustments_raw", "list_technical_adjustments"}
PagedOps == PagedHandlerOps \cup {"list_with_related_fields_paged"}
HandlerOps == PagedHandlerOps \cup {"get_technical_adjustments"}

\* The repository's paged method was called by the request in the state.
CallMade == request.op \in PagedOps /\ returned # NoCall
\* ... and it returned its envelope.
CallReturned == CallMade /\ returned.raised = "none"

\* The rows of the store whose two identifiers both equal the given ones.
MatchingIds(iis, pto) ==
    {i \in DOMAIN store : /\ store[i].insurable_interest_set_id = iis
                          /\ store[i].policy_term_option_id = pto}
NMatching == Cardinality(MatchingIds(request.iis, request.pto))

\* k = ceil(n / p) for p >= 1.
IsCeil(k, n, p) == k * p >= n /\ (k - 1) * p < n

\* C1: with N matching rows and page_size P >= 1 the paged listing reports
\* total_items = N and total_pages = ceil(N/P); page 1 holds min(P, N)
\* records and the last page, ceil(N/P), holds N - (ceil(N/P) - 1) * P; a
\* paged handler hands on the same meta and as many records.
C1_TotalsAndPageLengths ==
    (CallReturned /\ request.page_size >= 1) =>
        LET meta == returned.value.meta
            recs == returned.value.records
            P    == request.page_size
        IN  /\ meta.total_items = NMatching
            /\ IsCeil(meta.total_pages, NMatching, P)
            /\ (request.page = 1 => Len(recs) = Min(P, NMatching))
            /\ (NMatching > 0 /\ request.page = meta.total_pages =>
                    Len(recs) = NMatching - (meta.total_pages - 1) * P)
            /\ (request.op \in PagedHandlerOps =>
                    /\ response.status = 200
                    /\ response.body.meta = meta
                    /\ Len(response.body.records) = Len(recs))

\* The spec's scenario: 3 matching rows, page 2 of size 2 holds the one row
\* left, of 2 pages and 3 items.
C1_Witness ==
    /\ request.op = "list_technical_adjustments"
    /\ request.page = 2 /\ request.page_size = 2
    /\ response.status = 200
    /\ response.body.meta.total_items = 3
    /\ response.body.meta.total_pages = 2
    /\ Len(response.body.records) = 1

\* C2: the meta totals are those of the matching set and page_size whatever
\* the page asked for (the same call with any other page reports the same
\* totals), and a page beyond total_pages holds no record.
C2_TotalsWhateverThePage ==
    CallReturned =>
        LET meta == returned.value.meta
        IN  /\ meta.total_items = NMatching
            /\ \A p \in Pages :
                LET other == ListWithRelatedFieldsPaged(store, OkEnv,
                                request.iis, request.pto, p, request.page_size)
                IN  /\ other.raised = "none"
                    /\ other.value.meta.total_items = meta.total_items
                    /\ other.value.meta.total_pages = meta.total_pages
            /\ (request.page > meta.total_pages => returned.value.records = <<>>)

\* C3: with page_size <= 0, unless the store raised, the paged listing
\* returns (no division error) and reports total_pages = 1.
C3_NonPositivePageSize ==
    (CallMade /\ request.page_size <= 0 /\ returned.raised # "SQLAlchemyError") =>
        /\ returned.raised = "none"
        /\ returned.value.meta.total_pages = 1

\* C4: a page below 1 is served as page 1 (offset 0, page_number 1, the
\* records of page 1); a page >= 1 is fetched at offset (page-1)*page_size
\* and reported as page_number.
C4_PageClamped ==
    /\ (CallMade /\ returned.issued # <<>>) =>
            returned.issued[1].offset =
                IF request.page < 1 THEN 0
                ELSE (request.page - 1) * request.page_size
    /\ CallReturned =>
            /\ returned.value.meta.page_number =
                    IF request.page < 1 THEN 1 ELSE request.page
            /\ request.page < 1 =>
                    returned.value.records =
                        ListWithRelatedFieldsPaged(store, OkEnv, request.iis,
                            request.pto, 1, request.page_size).value.records

C4_Witness ==
    /\ request.op = "list_with_related_fields_paged"
    /\ request.page = -1 /\ request.page_size = 2
    /\ returned.raised = "none"
    /\ Len(returned.value.records) = 2
    /\ returned.value.meta.page_number = 1
    /\ returned.issued[1].offset = 0

\* C5: unless the store raised, the non-paged listing answers 404 exactly
\* when no row matches both identifiers, and otherwise 200 with one record
\* per matching row and no other.
C5_NonPagedExactlyMatching ==
    (request.op = "get_technical_adjustments" /\ returned.raised = "none") =>
        LET n == NMatching
        IN  /\ (response.status = 404) <=> (n = 0)
            /\ response.status \in {200, 404}
            /\ response.status = 404 => response.body.detail = NotFoundDetail
            /\ response.status = 200 =>
                LET results == response.body.technical_adjustments
                IN  /\ Len(results) = n
                    /\ {results[i].technicalAdjustmentId :
                            i \in 1..Len(results)}
                       = MatchingIds(request.iis, request.pto)

C5_Witness ==
    /\ request.op = "get_technical_adjustments"
    /\ response.status = 200
    /\ Len(response.body.technical_adjustments) = 2
    /\ Len(store) = 3

C7_RenamedKey ==
    (request.op \in PagedHandlerOps \cup {"schema_list_technical_adjustments"}
        /\ response.status = 200) =>
        /\ DOMAIN response.body = {"meta", "technicalAdjustments"}
        /\ request.op \in PagedHandlerOps =>
            Len(response.body["technicalAdjustments"])
                = Len(returned.value.records)

\* The value a record of a response carries for a list column, under the
\* handler's key or, where the handler hands the row on, under the column's.
OutField(rec, key, column) == IF key \in DOMAIN rec THEN rec[key] ELSE rec[column]
OutId(rec) == OutField(rec, "technicalAdjustmentId", "id")
ResponseRecords ==
    IF request.op = "get_technical_adjustments"
    THEN response.body.technical_adjustments
    ELSE response.body.records

\* C8: in every record of every successful listing response the three list
\* fields are never null: the empty sequence when the stored value is null,
\* the stored value otherwise.
C8_ListsNeverNull ==
    (request.op \in HandlerOps /\ response.status = 200) =>
        \A i \in 1..Len(ResponseRecords) :
            LET rec == ResponseRecords[i]
                row == store[OutId(rec)]
                Ok(out, stored) ==
                    /\ ~out.isNull
                    /\ out.items = IF stored.isNull THEN <<>> ELSE stored.items
            IN  /\ Ok(OutField(rec, "assetTypes", "asset_types"), row.asset_types)
                /\ Ok(OutField(rec, "perils", "perils"), row.perils)
                /\ Ok(OutField(rec, "insuredValueTypes", "insured_value_types"),
                      row.insured_value_types)

\* The path of the request in the state.
RequestPath ==
    IF request.op = "get_technical_adjustments" THEN NonPagedPath ELSE PagedPath

\* C9: when the store raises during a listing request the response is 500,
\* titled "Database Error", its body the same whatever was raised but for
\* timestamp and path, with no text of the exception, and the failure is
\* logged at error severity with the request's path.
C9_OpaqueDatabaseError ==
    (request.op \in HandlerOps /\ returned.raised = "SQLAlchemyError") =>
        /\ response.status = 500
        /\ DOMAIN response.body = {"timestamp", "status", "title", "errors", "path"}
        /\ response.body.timestamp \in Timestamps
        /\ response.body.path = RequestPath
        /\ [response.body EXCEPT !.timestamp = 0, !.path = ""] =
                [timestamp |-> 0, status |-> 500, title |-> "Database Error",
                 errors |-> <<[detail |-> FixedDetail]>>, path |-> ""]
        /\ \A t \in ExcTexts :
                /\ response.body.title # t
                /\ \A k \in 1..Len(response.body.errors) :
                        response.body.errors[k].detail # t
        /\ Len(logged) = 1
        /\ logged[1].level = "error"
        /\ logged[1].path = RequestPath
        /\ logged[1].exc_info = returned.text

C9_Witness ==
    /\ request.op = "get_technical_adjustments"
    /\ returned.raised = "SQLAlchemyError"
    /\ returned.text = "deadlock detected"
    /\ response.status = 500
    /\ logged # <<>>

\* C10: reading pages 1..total_pages of size P >= 1 from an unchanged store
\* yields every matching row exactly once and no other row, at most P per
\* page, total_items in all.
C10_PagesPartitionMatching ==
    /\ sweep.active =>
        /\ sweep.longest <= sweep.page_size
        /\ Len(returned.value.records) <= sweep.page_size
        /\ \A i, j \in 1..Len(sweep.ids) : sweep.ids[i] = sweep.ids[j] => i = j
    /\ (sweep.active /\ sweep.done) =>
        /\ {sweep.ids[i] : i \in 1..Len(sweep.ids)}
                = MatchingIds(sweep.iis, sweep.pto)
        /\ Len(sweep.ids) = sweep.total_items
        /\ sweep.total_items = Cardinality(MatchingIds(sweep.iis, sweep.pto))

C10_Witness ==
    /\ sweep.active /\ sweep.done
    /\ sweep.page_size = 1
    /\ sweep.total_pages = 2
    /\ Len(sweep.ids) = 2
    /\ Len(store) = 3

=============================================================================
